---- MODULE Spec2Model ----
(***************************************************************************)
(* RedditScraper (modules/scraper.py): run walks every subreddit with      *)
(* fetch_posts, page by page, and hands the accumulated posts to           *)
(* save_posts_with_duplicates, which writes them through one SQLAlchemy    *)
(* session with one commit per post.  The schema (modules/database.py)     *)
(* makes Post.id the primary key and Post.post_url and Comment.comment_id  *)
(* unique.  schedule_scraper_job (modules/scheduler.py) calls run from its  *)
(* loop; run ends with exit(0).                                            *)
(***************************************************************************)
EXTENDS Integers, Sequences, FiniteSets, TLC

\* ------------------------------------------------------------------ bounds
NumIds == 2          \* submission ids the upstream can return
NumUrls == 2         \* permalinks the upstream can return
NumCommentIds == 2   \* comment ids the upstream can return
MaxSize == 4         \* submissions, comments, stored rows and connection losses of one run
MaxPages == 3        \* page responses the upstream holds for one subreddit
MaxLimit == 5        \* largest --pagination_limit
MaxRuns == 2         \* executions of run against the same store

\* ------------------------------------------------------- program constants
max_api_retries == 3
max_comments == 100
SiteOrigin == "https://www.reddit.com"

None == <<>>
Some(x) == <<x>>
Min(a, b) == IF a <= b THEN a ELSE b
SetMax(S) == IF S = {} THEN 0 ELSE CHOOSE m \in S : \A n \in S : n <= m

Ids == 1..NumIds
Permalinks == 1..NumUrls
CommentIds == 1..NumCommentIds

VARIABLES
    upstream,          \* subreddit -> page responses of the Reddit API
    subreddits,        \* run's argument: the subreddit names, in order
    pagination_limit,  \* run's argument: None or Some(n)
    db_faults,         \* connection losses the database may still suffer
    store,             \* committed rows: [posts, comments]
    flushed,           \* rows INSERTed in the open transaction
    pending,           \* objects added to the session, not yet flushed
    pc,                \* where run is
    k,                 \* position in subreddits of the current subreddit (0: none yet)
    posts,             \* fetch_posts: posts; then save's argument
    seen_urls,         \* fetch_posts: seen_urls
    batches,           \* fetch_posts: the batch of each page of the walk, in order
    requests,          \* the params of each listing call of the walk, in order
    after,             \* fetch_posts: after
    current_page,      \* fetch_posts: current_page
    api_calls,         \* listing calls made by the current walk
    walk_end,          \* how the current walk left its loop
    i,                 \* save: position of post_data in posts
    j,                 \* save: position of comment_data in its comments
    skipped,           \* save: positions skipped as duplicate posts
    batch_committed,   \* save: rows this call has committed
    attempt,           \* save: what the open transaction has added so far
    failed_at,         \* save: position whose transaction raised (0: none)
    last_error,        \* save: the exception caught, and where
    run_no,            \* executions of run so far
    first_run,         \* the store and the errors at the end of the first
    post_type,         \* run's argument: the listing to read
    rollback_faults,   \* failures Session.rollback() may still suffer
    feed_log,          \* one record per subreddit run has started, in order
    pace,              \* the last of: a listing call ("called"), a sleep ("slept")
    interrupted,       \* a KeyboardInterrupt has been delivered
    exit_code          \* None while the process lives, then Some(code)

vars == <<upstream, subreddits, pagination_limit, db_faults, store, flushed,
          pending, pc, k, posts, seen_urls, batches, requests, after,
          current_page, api_calls, walk_end, i, j, skipped, batch_committed, attempt, failed_at,
          last_error, run_no, first_run, post_type, rollback_faults, feed_log,
          pace, interrupted, exit_code>>

\* ------------------------------------------------------------- the upstream
\* A praw submission: id, permalink and the ids of its comment forest.
Submissions(ids, links, cseqs) == [id : ids, permalink : links, comments : cseqs]

RECURSIVE SeqSum(_)
SeqSum(q) == IF q = <<>> THEN 0 ELSE Head(q) + SeqSum(Tail(q))

\* The shapes of the listings of at most n objects, a submission and each of
\* its comments counting one: the number of comments of each submission.
Shapes(n) ==
    UNION {{sh \in [1..m -> 0..n] : m + SeqSum(sh) <= n} : m \in 0..n}

\* The listing of a shape: keys gives each submission its id and permalink, ckeys
\* gives the comments, in listing order, their ids.
MakeListing(sh, keys, ckeys) ==
    [p \in 1..Len(sh) |->
        [id |-> keys[p][1], permalink |-> keys[p][2],
         comments |-> [q \in 1..sh[p] |-> ckeys[SeqSum(SubSeq(sh, 1, p - 1)) + q]]]]

Ok(listing) == [ok |-> TRUE, listing |-> listing]
Fail == [ok |-> FALSE, listing |-> <<>>]

\* subreddit.hot/new/top/rising(limit=100, params={'after': after}) for the
\* n-th page of the walk; past the recorded pages the subreddit is exhausted.
api_listing(subreddit_name, n) ==
    IF n <= Len(upstream[subreddit_name]) THEN upstream[subreddit_name][n]
    ELSE Ok(<<>>)

fullname(post) == <<"t3", post.id>>

\* params={'after': after} if after else None
listing_params(cursor) == IF cursor = None THEN None ELSE [after |-> cursor[1]]

\* The cursor taken from the last record kept in the batch of the page.
next_cursor_of_batch(posts_listing, batch) ==
    IF batch = <<>> THEN None ELSE Some(fullname(batch[Len(batch)]))

\* after = posts_listing[-1].fullname
next_cursor(posts_listing, batch) ==
    Some(fullname(posts_listing[Len(posts_listing)]))

\* ------------------------------------------------------------- extraction
\* The attributes of a submission that extract_post_data reads.  Reading an
\* attribute the submission does not have raises; extract_post_data logs and
\* raises again.
RequiredFields == {"id", "permalink"}

extract_raises(post) == ~(RequiredFields \subseteq DOMAIN post)

extract_post_data(post, subreddit_name) ==
    [id |-> post.id,
     post_url |-> <<SiteOrigin, post.permalink>>,
     subreddit |-> subreddit_name]

\* The comment forest of a submission may raise (replace_more, list, or the
\* reading of a comment): comments_raise_at is the number of comments
\* appended to comments_data when it does.
comments_raise(post) == "comments_raise_at" \in DOMAIN post

\* fetch_comments returning nothing when the comment forest has raised.
fetch_comments_drops(post) ==
    IF comments_raise(post) THEN <<>>
    ELSE [n \in 1..Min(Len(post.comments), max_comments) |->
             [comment_id |-> post.comments[n], post_id |-> post.id]]

\* try: replace_more, list()[:max_comments], append each comment; except
\* Exception: log; return comments_data.
fetch_comments(post) ==
    LET comments == SubSeq(post.comments, 1, Min(Len(post.comments), max_comments))
        done == IF comments_raise(post)
                THEN Min(post.comments_raise_at, Len(comments))
                ELSE Len(comments)
    IN  [n \in 1..done |-> [comment_id |-> comments[n], post_id |-> post.id]]

with_comments(post_data, comments) ==
    [id |-> post_data.id, post_url |-> post_data.post_url,
     subreddit |-> post_data.subreddit, comments |-> comments]

\* The for loop without the test on seen_urls: every submission is appended.
RECURSIVE page_batch_keeps_all(_, _, _, _)
page_batch_keeps_all(posts_listing, seen, batch, subreddit_name) ==
    IF posts_listing = <<>>
    THEN [batch |-> batch, seen_urls |-> seen, raised |-> FALSE]
    ELSE IF extract_raises(Head(posts_listing))
    THEN [batch |-> batch, seen_urls |-> seen, raised |-> TRUE]
    ELSE LET post == Head(posts_listing)
             post_data == extract_post_data(post, subreddit_name)
         IN  page_batch_keeps_all(Tail(posts_listing),
                                  seen \cup {post_data.post_url},
                                  Append(batch, with_comments(post_data, fetch_comments(post))),
                                  subreddit_name)

\* The for loop with a set of seen urls of its own for every page.
RECURSIVE page_batch_of_page(_, _, _, _)
page_batch_of_page(posts_listing, seen, batch, subreddit_name) ==
    IF posts_listing = <<>>
    THEN [batch |-> batch, seen_urls |-> seen, raised |-> FALSE]
    ELSE IF extract_raises(Head(posts_listing))
    THEN [batch |-> batch, seen_urls |-> seen, raised |-> TRUE]
    ELSE LET post == Head(posts_listing)
             post_data == extract_post_data(post, subreddit_name)
         IN  IF post_data.post_url \notin {r.post_url : r \in {batch[m] : m \in 1..Len(batch)}}
             THEN page_batch_of_page(Tail(posts_listing),
                                     seen \cup {post_data.post_url},
                                     Append(batch, with_comments(post_data, fetch_comments(post))),
                                     subreddit_name)
             ELSE page_batch_of_page(Tail(posts_listing), seen, batch, subreddit_name)

\* The for loop over posts_listing: the batch of one page and the urls seen;
\* raised when extract_post_data has raised and ended the loop.
RECURSIVE page_batch(_, _, _, _)
page_batch(posts_listing, seen, batch, subreddit_name) ==
    IF posts_listing = <<>>
    THEN [batch |-> batch, seen_urls |-> seen, raised |-> FALSE]
    ELSE IF extract_raises(Head(posts_listing))
    THEN [batch |-> batch, seen_urls |-> seen, raised |-> TRUE]
    ELSE LET post == Head(posts_listing)
             post_data == extract_post_data(post, subreddit_name)
         IN  IF post_data.post_url \notin seen
             THEN page_batch(Tail(posts_listing),
                             seen \cup {post_data.post_url},
                             Append(batch, with_comments(post_data, fetch_comments(post))),
                             subreddit_name)
             ELSE page_batch(Tail(posts_listing), seen, batch, subreddit_name)

\* fetch_posts is called by run without a search_query: the default, None.
search_query == None

\* The listings a subreddit is read by without a search query.
PostTypes == {"hot", "new", "top", "rising"}

\* The if/elif chain over post_type: ValueError for "relevance" without a
\* search query and for a post_type that is none of the five.
listing_raises(type, query) ==
    IF type \in PostTypes THEN FALSE
    ELSE IF type = "relevance" THEN query = None
    ELSE TRUE

\* while current_page < (pagination_limit if pagination_limit else 1)
page_bound(limit) == IF limit # None /\ limit[1] # 0 THEN limit[1] ELSE 1

\* The walk dropping what it has accumulated when a page fetch raises.
fetch_except_drops(acc) == <<>>

\* except Exception: log, break; then return posts
fetch_except(acc) == acc

\* ------------------------------------------------------------ the database
Empty == [posts |-> {}, comments |-> {}]

StoreIds(s) == {r.id : r \in s.posts}
StoreUrls(s) == {r.post_url : r \in s.posts}
StoreCommentIds(s) == {c.comment_id : c \in s.comments}

\* What a query of the session sees: the committed rows and its own INSERTs.
visible(st, fl) ==
    [posts |-> st.posts \cup fl.posts, comments |-> st.comments \cup fl.comments]

\* The number of the last committed transaction (rows there from the start: 0).
txn(st) == SetMax({r.tx : r \in st.posts} \cup {c.tx : c \in st.comments})

\* Post(id=..., post_url=..., subreddit=...)
Post(post_data, tx) ==
    [id |-> post_data.id, post_url |-> post_data.post_url,
     subreddit |-> post_data.subreddit, tx |-> tx]

\* Comment(comment_id=comment_data["comment_id"], post_id=post_data["id"], ...)
Comment(comment_data, post_data, tx) ==
    [comment_id |-> comment_data.comment_id, post_id |-> post_data.id, tx |-> tx]

\* posts.id without its primary key constraint.
pk_conflict_unchecked(row, vis) == FALSE

\* id = Column(String, primary_key=True)
pk_conflict(row, vis) == row.id \in StoreIds(vis)
\* post_url = Column(Text, nullable=False, unique=True)
url_conflict(row, vis) == row.post_url \in StoreUrls(vis)
\* comment_id = Column(String, unique=True, nullable=False)
comment_id_conflict(row, vis) == row.comment_id \in StoreCommentIds(vis)

\* The INSERTs of a flush raise IntegrityError on a violated constraint.
flush_raises(pend, vis) ==
    \/ \E p \in pend.posts : pk_conflict(p, vis) \/ url_conflict(p, vis)
    \/ \E c \in pend.comments : comment_id_conflict(c, vis)

\* id = Column(Integer, primary_key=True, autoincrement=True): the rowid is given
\* by the INSERT.  The session holds at most one unflushed comment.
flush(pend, fl, st) ==
    LET rowid == SetMax({c.id : c \in visible(st, fl).comments}) + 1
    IN  [posts |-> fl.posts \cup pend.posts,
         comments |-> fl.comments \cup
             {[id |-> rowid, comment_id |-> c.comment_id,
               post_id |-> c.post_id, tx |-> c.tx] : c \in pend.comments}]

\* The duplicate check made by id instead of post_url.
existing_post_by_id(post_data, vis) ==
    \E r \in vis.posts : r.id = post_data.id

\* Session.query(Post).filter_by(post_url=post_data["post_url"]).first()
existing_post(post_data, vis) ==
    \E r \in vis.posts : r.post_url = post_data.post_url

\* Session.query(Comment).filter_by(comment_id=...).first()
existing_comment(comment_data, vis) ==
    \E c \in vis.comments : c.comment_id = comment_data.comment_id

\* A commit that replaces the tables by the rows of the transaction.
commit_replaces(st, fl) == fl

\* Session.commit(): the rows of the transaction become committed rows.
commit(st, fl) == visible(st, fl)

\* A rollback that leaves the comments already INSERTed (as if each comment
\* were committed on its own).
rollback_keeps_comments(st, fl) ==
    [posts |-> st.posts, comments |-> st.comments \cup fl.comments]

\* A rollback that leaves every row already INSERTed.
rollback_keeps_rows(st, fl) == visible(st, fl)

\* Session.rollback(): the rows of the transaction are dropped.
rollback(st, fl) == st

\* The database connection may be lost at any statement (OperationalError).
FaultChoices == IF db_faults > 0 THEN BOOLEAN ELSE {FALSE}

NoError == [type |-> "none", at |-> "none"]

\* ------------------------------------------------------------------- run
\* What run has done with a subreddit: the store it found, how the body of its
\* try ended ("saved": save_posts_with_duplicates returned; "raised": the
\* except of run caught an exception) and the rows its save committed.
feed_started(subreddit_name, st) ==
    [subreddit |-> subreddit_name, store_before |-> st, outcome |-> "started",
     committed |-> Empty]

feed_ended(entry, outcome, rows) ==
    [entry EXCEPT !.outcome = outcome, !.committed = rows]

\* The except of run leaving the for loop: the subreddits after this one are
\* not processed.
run_except_aborts(n) == Len(subreddits)

\* except Exception in run: log; the for loop goes on after subreddit n.
run_except(n) == n

\* for subreddit_name in subreddits: the next subreddit; fetch_posts starts.
RunFeed ==
    /\ pc = "run_loop"
    /\ k < Len(subreddits)
    /\ k' = k + 1
    /\ posts' = <<>>
    /\ seen_urls' = {}
    /\ batches' = <<>>
    /\ requests' = <<>>
    /\ after' = None
    /\ current_page' = 0
    /\ api_calls' = 0
    /\ walk_end' = "none"
    /\ i' = 0
    /\ j' = 0
    /\ skipped' = {}
    /\ batch_committed' = Empty
    /\ attempt' = Empty
    /\ failed_at' = 0
    /\ last_error' = NoError
    /\ pc' = "fetch_loop"
    /\ feed_log' = Append(feed_log, feed_started(subreddits[k + 1], store))
    /\ UNCHANGED <<upstream, subreddits, pagination_limit, db_faults, store,
                   flushed, pending, run_no, first_run, post_type,
                   rollback_faults, pace, interrupted, exit_code>>

\* After the last subreddit: "Completed scraping all subreddits", exit(0).
RunExit ==
    /\ pc = "run_loop"
    /\ k = Len(subreddits)
    /\ pc' = "exited"
    /\ exit_code' = Some(0)
    /\ UNCHANGED <<upstream, subreddits, pagination_limit, db_faults, store,
                   flushed, pending, k, posts, seen_urls, batches, requests,
                   after,
                   current_page,
                   api_calls, walk_end, i, j, skipped, batch_committed, attempt,
                   failed_at, last_error, run_no, first_run, post_type,
                   rollback_faults, feed_log, pace, interrupted>>

\* ------------------------------------------------------------ fetch_posts
\* One turn of the while loop: the listing call, the batch of the page, the
\* cursor, the sleep.  A ValueError of the post_type chain, a raising call, an
\* empty listing and a raising extract_post_data break out of the loop;
\* fetch_posts then returns posts and run passes them to
\* save_posts_with_duplicates.
FetchPage ==
    /\ pc = "fetch_loop"
    /\ current_page < page_bound(pagination_limit)
    /\ LET subreddit_name == subreddits[k]
           response == api_listing(subreddit_name, current_page + 1)
           posts_listing == response.listing
           page == page_batch(posts_listing, seen_urls, <<>>, subreddit_name)
       IN  IF listing_raises(post_type, search_query)
           THEN /\ posts' = fetch_except(posts)
                /\ walk_end' = "input"
                /\ pc' = "save_loop"
                /\ i' = 1
                /\ UNCHANGED <<seen_urls, batches, requests, after, current_page,
                               api_calls, pace>>
           ELSE /\ api_calls' = api_calls + 1
                /\ requests' = Append(requests, listing_params(after))
                /\ IF ~response.ok
                   THEN /\ posts' = fetch_except(posts)
                        /\ walk_end' = "error"
                        /\ pc' = "save_loop"
                        /\ i' = 1
                        /\ pace' = "called"
                        /\ UNCHANGED <<seen_urls, batches, after, current_page>>
                   ELSE IF posts_listing = <<>>
                   THEN /\ walk_end' = "empty"
                        /\ pc' = "save_loop"
                        /\ i' = 1
                        /\ pace' = "called"
                        /\ UNCHANGED <<posts, seen_urls, batches, after,
                                       current_page>>
                   ELSE IF page.raised
                   THEN /\ posts' = fetch_except(posts)
                        /\ seen_urls' = page.seen_urls
                        /\ walk_end' = "extract"
                        /\ pc' = "save_loop"
                        /\ i' = 1
                        /\ pace' = "called"
                        /\ UNCHANGED <<batches, after, current_page>>
                   ELSE /\ posts' = posts \o page.batch
                        /\ batches' = Append(batches, page.batch)
                        /\ seen_urls' = page.seen_urls
                        /\ after' = next_cursor(posts_listing, page.batch)
                        /\ current_page' = current_page + 1
                        /\ pace' = "slept"
                        /\ UNCHANGED <<walk_end, pc, i>>
    /\ UNCHANGED <<upstream, subreddits, pagination_limit, db_faults, store,
                   flushed, pending, k, j, skipped, batch_committed, attempt,
                   failed_at, last_error, run_no, first_run,
                   post_type, rollback_faults, feed_log, interrupted,
                   exit_code>>

\* The while condition is false: fetch_posts returns posts.
FetchExit ==
    /\ pc = "fetch_loop"
    /\ ~(current_page < page_bound(pagination_limit))
    /\ walk_end' = "limit"
    /\ pc' = "save_loop"
    /\ i' = 1
    /\ UNCHANGED <<upstream, subreddits, pagination_limit, db_faults, store,
                   flushed, pending, k, posts, seen_urls, batches, requests,
                   after,
                   current_page,
                   api_calls, j, skipped, batch_committed, attempt, failed_at,
                   last_error, run_no, first_run, post_type, rollback_faults, feed_log,
          pace, interrupted, exit_code>>

\* ------------------------------------------- save_posts_with_duplicates
\* Session.rollback() on a lost connection may raise in its turn.
RollbackChoices == IF rollback_faults > 0 THEN BOOLEAN ELSE {FALSE}

\* except Exception: log, Session.rollback(); finally Session.close().  The try
\* encloses the for loop, so the call returns; run sleeps and goes on.  When
\* Session.rollback() raises (reraised), the exception leaves save after the
\* finally and is caught by the except of run, which skips the sleep; the
\* database drops the open transaction with the connection.
SaveRaises(type, at, reraised) ==
    /\ store' = rollback(store, flushed)
    /\ flushed' = Empty
    /\ pending' = Empty
    /\ failed_at' = i
    /\ last_error' = [type |-> type, at |-> at]
    /\ j' = 0
    /\ pc' = "run_loop"
    /\ IF reraised
       THEN /\ rollback_faults' = rollback_faults - 1
            /\ k' = run_except(k)
            /\ feed_log' = [feed_log EXCEPT
                                ![k] = feed_ended(@, "raised", batch_committed)]
            /\ UNCHANGED pace
       ELSE /\ pace' = "slept"
            /\ feed_log' = [feed_log EXCEPT
                                ![k] = feed_ended(@, "saved", batch_committed)]
            /\ UNCHANGED <<rollback_faults, k>>

\* for post_data in posts: the query by post_url; a duplicate is skipped
\* (continue), a new post is added to the session.
SavePost ==
    /\ pc = "save_loop"
    /\ i <= Len(posts)
    /\ \E fault \in FaultChoices :
        LET post_data == posts[i] IN
        IF fault
        THEN /\ db_faults' = db_faults - 1
             /\ \E reraised \in RollbackChoices :
                    SaveRaises("OperationalError", "post", reraised)
             /\ UNCHANGED <<i, skipped, attempt>>
        ELSE IF existing_post(post_data, visible(store, flushed))
        THEN /\ skipped' = skipped \cup {i}
             /\ i' = i + 1
             /\ UNCHANGED <<db_faults, store, flushed, pending, pc, j, attempt,
                            failed_at, last_error, k, rollback_faults, feed_log,
                            pace>>
        ELSE /\ pending' = [posts |-> {Post(post_data, txn(store) + 1)},
                            comments |-> {}]
             /\ attempt' = [posts |-> {Post(post_data, txn(store) + 1)},
                            comments |-> {}]
             /\ j' = 1
             /\ pc' = "save_comments"
             /\ UNCHANGED <<db_faults, store, flushed, i, skipped, failed_at,
                            last_error, k, rollback_faults, feed_log, pace>>
    /\ UNCHANGED <<upstream, subreddits, pagination_limit, posts, seen_urls,
                   batches, requests,
                   after, current_page, api_calls, walk_end, batch_committed,
                   run_no, first_run, post_type, interrupted, exit_code>>

\* for comment_data in post_data.get("comments", []): the query by comment_id
\* flushes the session first (autoflush); a duplicate is skipped, a new
\* comment is added to the session.
SaveComment ==
    /\ pc = "save_comments"
    /\ j <= Len(posts[i].comments)
    /\ \E fault \in FaultChoices :
        LET post_data == posts[i]
            comment_data == post_data.comments[j]
            comment == Comment(comment_data, post_data, txn(store) + 1)
            inserted == flush(pending, flushed, store)
        IN
        IF fault
        THEN /\ db_faults' = db_faults - 1
             /\ \E reraised \in RollbackChoices :
                    SaveRaises("OperationalError", "comment", reraised)
             /\ UNCHANGED <<attempt>>
        ELSE IF flush_raises(pending, visible(store, flushed))
        THEN /\ SaveRaises("IntegrityError", "comment", FALSE)
             /\ UNCHANGED <<db_faults, attempt>>
        ELSE /\ flushed' = inserted
             /\ IF existing_comment(comment_data, visible(store, inserted))
                THEN /\ pending' = Empty
                     /\ UNCHANGED attempt
                ELSE /\ pending' = [posts |-> {}, comments |-> {comment}]
                     /\ attempt' = [posts |-> attempt.posts,
                                    comments |-> attempt.comments \cup {comment}]
             /\ j' = j + 1
             /\ UNCHANGED <<db_faults, store, pc, failed_at, last_error, k,
                            rollback_faults, feed_log, pace>>
    /\ UNCHANGED <<upstream, subreddits, pagination_limit, posts, seen_urls,
                   batches, requests,
                   after, current_page, api_calls, walk_end, i, skipped,
                   batch_committed, run_no, first_run, post_type, interrupted,
                   exit_code>>

\* Session.commit() after the comments of the post: flush, then commit.
SaveCommit ==
    /\ pc = "save_comments"
    /\ j > Len(posts[i].comments)
    /\ \E fault \in FaultChoices :
        LET inserted == flush(pending, flushed, store) IN
        IF fault
        THEN /\ db_faults' = db_faults - 1
             /\ \E reraised \in RollbackChoices :
                    SaveRaises("OperationalError", "commit", reraised)
             /\ UNCHANGED <<i, batch_committed, attempt>>
        ELSE IF flush_raises(pending, visible(store, flushed))
        THEN /\ SaveRaises("IntegrityError", "commit", FALSE)
             /\ UNCHANGED <<db_faults, i, batch_committed, attempt>>
        ELSE /\ store' = commit(store, inserted)
             /\ batch_committed' = visible(batch_committed, inserted)
             /\ flushed' = Empty
             /\ pending' = Empty
             /\ attempt' = Empty
             /\ i' = i + 1
             /\ j' = 0
             /\ pc' = "save_loop"
             /\ UNCHANGED <<db_faults, failed_at, last_error, k,
                            rollback_faults, feed_log, pace>>
    /\ UNCHANGED <<upstream, subreddits, pagination_limit, posts, seen_urls,
                   batches, requests,
                   after, current_page, api_calls, walk_end, skipped,
                   run_no, first_run, post_type, interrupted, exit_code>>

\* The for loop is over: finally Session.close(); back in run, the sleep.
SaveReturn ==
    /\ pc = "save_loop"
    /\ i > Len(posts)
    /\ pc' = "run_loop"
    /\ pace' = "slept"
    /\ feed_log' = [feed_log EXCEPT ![k] = feed_ended(@, "saved", batch_committed)]
    /\ UNCHANGED <<upstream, subreddits, pagination_limit, db_faults, store,
                   flushed, pending, k, posts, seen_urls, batches, requests,
                   after,
                   current_page,
                   api_calls, walk_end, i, j, skipped, batch_committed, attempt,
                   failed_at, last_error, run_no, first_run, post_type,
                   rollback_faults, interrupted, exit_code>>

\* The pipeline is executed again (a new process), on the store as it is and
\* with the same arguments and upstream responses.
Restart ==
    /\ pc = "exited"
    /\ run_no < MaxRuns
    /\ run_no' = run_no + 1
    /\ first_run' = IF first_run = None THEN Some(store) ELSE first_run
    /\ pc' = "run_loop"
    /\ k' = 0
    /\ posts' = <<>>
    /\ seen_urls' = {}
    /\ batches' = <<>>
    /\ requests' = <<>>
    /\ after' = None
    /\ current_page' = 0
    /\ api_calls' = 0
    /\ walk_end' = "none"
    /\ i' = 0
    /\ j' = 0
    /\ skipped' = {}
    /\ batch_committed' = Empty
    /\ attempt' = Empty
    /\ failed_at' = 0
    /\ last_error' = NoError
    /\ feed_log' = <<>>
    /\ pace' = "none"
    /\ exit_code' = None
    /\ UNCHANGED <<upstream, subreddits, pagination_limit, db_faults, store,
                   flushed, pending, post_type, rollback_faults, interrupted>>

\* ------------------------------------------------- schedule_scraper_job
\* Session.close() in the finally of save: the open transaction is dropped.
close(st, fl) == st

\* while True: schedule.run_pending(): the job is due and scraper.run is
\* called.
RunPending ==
    /\ pc = "scheduler"
    /\ run_no < MaxRuns
    /\ run_no' = run_no + 1
    /\ pc' = "run_loop"
    /\ k' = 0
    /\ UNCHANGED <<upstream, subreddits, pagination_limit, db_faults, store,
                   flushed, pending, posts, seen_urls, batches, requests,
                   after,
                   current_page, api_calls, walk_end, i, j, skipped,
                   batch_committed, attempt, failed_at, last_error, first_run,
                   post_type, rollback_faults, feed_log, pace, interrupted,
                   exit_code>>

\* Ctrl+C: KeyboardInterrupt is raised where the program is.  No except
\* Exception of fetch_posts, save_posts_with_duplicates or run catches it; the
\* finally of save closes the session; the except KeyboardInterrupt of
\* schedule_scraper_job logs and calls sys.exit(0).
Interrupt ==
    /\ pc # "exited"
    /\ interrupted' = TRUE
    /\ store' = close(store, flushed)
    /\ flushed' = Empty
    /\ pending' = Empty
    /\ pc' = "exited"
    /\ exit_code' = Some(0)
    /\ UNCHANGED <<upstream, subreddits, pagination_limit, db_faults, k, posts,
                   seen_urls, batches, requests, after, current_page, api_calls,
                   walk_end,
                   i, j, skipped, batch_committed, attempt, failed_at,
                   last_error, run_no, first_run, post_type, rollback_faults,
                   feed_log, pace>>

RunOnce ==
    \/ RunFeed
    \/ RunExit
    \/ FetchPage
    \/ FetchExit
    \/ SavePost
    \/ SaveComment
    \/ SaveCommit
    \/ SaveReturn

Next ==
    \/ RunOnce
    \/ Restart

\* The process: the scheduler loop, the job, an interrupt at any point.
NextProcess ==
    \/ RunOnce
    \/ RunPending
    \/ Interrupt

\* ------------------------------------------------------------ initial states
\* The stores a run can find: rows of earlier runs (of another subreddit), the
\* constraints of the schema holding and every comment under a stored post.
StoredPosts(ids, links) ==
    UNION {{{[id |-> n, post_url |-> <<SiteOrigin, f[n]>>, subreddit |-> "b",
              tx |-> 0] : n \in D}
            : f \in {g \in [D -> links] : \A m, n \in D : g[m] = g[n] => m = n}}
           : D \in SUBSET ids}

StoredComments(P, cids) ==
    UNION {{{[comment_id |-> c, post_id |-> f[c]] : c \in D}
            : f \in [D -> {p.id : p \in P}]}
           : D \in SUBSET cids}

StoresOfSize(n, ids, links, cids) ==
    UNION {{[posts |-> P,
             comments |-> {[id |-> Cardinality({d \in C : d.comment_id <= c.comment_id}),
                            comment_id |-> c.comment_id, post_id |-> c.post_id,
                            tx |-> 0] : c \in C}]
            : C \in {D \in StoredComments(P, cids) :
                        Cardinality(P) + Cardinality(D) = n}}
           : P \in StoredPosts(ids, links)}

InitControl ==
    /\ flushed = Empty
    /\ pending = Empty
    /\ pc = "run_loop"
    /\ k = 0
    /\ posts = <<>>
    /\ seen_urls = {}
    /\ batches = <<>>
    /\ requests = <<>>
    /\ after = None
    /\ current_page = 0
    /\ api_calls = 0
    /\ walk_end = "none"
    /\ i = 0
    /\ j = 0
    /\ skipped = {}
    /\ batch_committed = Empty
    /\ attempt = Empty
    /\ failed_at = 0
    /\ last_error = NoError
    /\ run_no = 1
    /\ first_run = None
    /\ feed_log = <<>>
    /\ pace = "none"
    /\ interrupted = FALSE
    /\ exit_code = None

\* --post_type has the default "hot" (main.py), and Session.rollback() works.
InitDefaults ==
    /\ post_type = "hot"
    /\ rollback_faults = 0

SaveStores == [n \in 0..MaxSize |-> StoresOfSize(n, Ids, Permalinks, CommentIds)]
SaveShapes == [n \in 0..MaxSize |-> Shapes(n)]

\* The code compares ids and permalinks for equality only, so the first
\* submission of the listing is given id 1 and permalink 1; the store and the
\* later submissions take any.
FirstIsOne(sh, keys) == [p \in 1..Len(sh) |-> IF p = 1 THEN <<1, 1>> ELSE keys[p]]

\* One subreddit, one page of any submissions and comments, any store, and a
\* database that may lose its connection: save returns at the first exception,
\* so one loss is all a call can meet.
InitSave ==
    /\ subreddits = <<"a">>
    /\ pagination_limit = None
    /\ \E f \in 0..1 : \E n \in 0..(MaxSize - f) :
          /\ db_faults = f
          /\ store \in SaveStores[n]
          /\ \E sh \in SaveShapes[MaxSize - f - n] :
                \E keys \in [2..Len(sh) -> Ids \X Permalinks],
                   ckeys \in [1..SeqSum(sh) -> CommentIds] :
                    upstream = [s \in {"a"} |->
                        <<Ok(MakeListing(sh, FirstIsOne(sh, keys), ckeys))>>]
    /\ InitControl
    /\ InitDefaults

\* The submissions of the walks: submission n has permalink n; the first has a
\* comment.
WalkSubmissions ==
    {[id |-> n, permalink |-> n, comments |-> IF n = 1 THEN <<1>> ELSE <<>>] :
        n \in 1..Min(NumIds, NumUrls)}

WalkResponses == {Fail, Ok(<<>>)} \cup {Ok(<<s>>) : s \in WalkSubmissions}

\* Two subreddits, any page responses (a listing, an empty listing, a failure),
\* any pagination_limit, an empty store.
InitWalk ==
    /\ subreddits = <<"a", "b">>
    /\ pagination_limit \in {None} \cup {Some(n) : n \in 0..MaxLimit}
    /\ \E pa \in [1..MaxPages -> WalkResponses], pb \in [1..1 -> WalkResponses] :
          upstream = [s \in {"a", "b"} |-> IF s = "a" THEN pa ELSE pb]
    /\ db_faults = 0
    /\ store = Empty
    /\ InitControl
    /\ InitDefaults

\* Two subreddits of one page each, one more id and permalink than the bounds,
\* any store of one post, a database that keeps its connection.
RunKeys == (1..(NumIds + 1)) \X (1..(NumUrls + 1))

InitRun ==
    /\ subreddits = <<"a", "b">>
    /\ pagination_limit = None
    /\ \E sa \in Shapes(2), sb \in Shapes(1) :
          \E ka \in [1..Len(sa) -> RunKeys], kb \in [1..Len(sb) -> RunKeys] :
              upstream = [s \in {"a", "b"} |->
                  IF s = "a" THEN <<Ok(MakeListing(sa, ka, [q \in 1..SeqSum(sa) |-> 1]))>>
                  ELSE <<Ok(MakeListing(sb, kb, <<>>))>>]
    /\ db_faults = 0
    /\ \E n \in 0..1 : store \in StoresOfSize(n, 1..(NumIds + 1), 1..(NumUrls + 1), {1})
    /\ InitControl
    /\ InitDefaults

\* The submissions of the page walks: any id, any permalink, one comment (its
\* id is the id of the submission); and a submission that has no permalink.
PageSubmissions ==
    {[id |-> n, permalink |-> m, comments |-> <<n>>] : n \in Ids, m \in Permalinks}
        \cup {[id |-> 1, comments |-> <<>>]}

\* A value --post_type can take, the value fetch_posts takes besides, and one
\* that is none of them.
AnyPostTypes == {"hot", "relevance", "best"}

\* Two subreddits: "a" of two pages, "b" of one page of at most one submission;
\* fewer than MaxSize submissions in all.  pagination_limit is absent or
\* MaxPages, and the store is empty.  The code compares ids and permalinks for
\* equality only, so the first submission that has a permalink has id 1 and
\* permalink 1.
InitPages ==
    /\ subreddits = <<"a", "b">>
    /\ pagination_limit \in {None, Some(MaxPages)}
    /\ post_type \in AnyPostTypes
    /\ \E n1 \in 0..(MaxSize - 1) : \E n2 \in 0..(MaxSize - 1 - n1) :
          \E n3 \in 0..Min(1, MaxSize - 1 - n1 - n2) :
             \E s \in [1..(n1 + n2 + n3) -> PageSubmissions] :
                /\ \A p \in 1..(n1 + n2 + n3) :
                      (/\ ~extract_raises(s[p])
                       /\ \A q \in 1..(p - 1) : extract_raises(s[q]))
                      => (s[p].id = 1 /\ s[p].permalink = 1)
                /\ upstream = [name \in {"a", "b"} |->
                      IF name = "a"
                      THEN <<Ok(SubSeq(s, 1, n1)), Ok(SubSeq(s, n1 + 1, n1 + n2))>>
                      ELSE <<Ok(SubSeq(s, n1 + n2 + 1, n1 + n2 + n3))>>]
    /\ db_faults = 0
    /\ rollback_faults = 0
    /\ store = Empty
    /\ InitControl

\* Three subreddits of one page each (a submission, an empty listing or a
\* failure), pagination_limit absent or MaxPages, an empty store, and a
\* database that may lose its connection once, after which Session.rollback()
\* may raise.
InitFeeds ==
    /\ subreddits = <<"a", "b", "c">>
    /\ pagination_limit \in {None, Some(MaxPages)}
    /\ post_type = "hot"
    /\ \E p \in [{"a", "b", "c"} -> WalkResponses] :
          upstream = [name \in {"a", "b", "c"} |-> <<p[name]>>]
    /\ db_faults \in 0..1
    /\ rollback_faults \in 0..db_faults
    /\ store = Empty
    /\ InitControl

\* The process in the loop of schedule_scraper_job, the job not yet run: two
\* subreddits of one page each, pagination_limit absent or MaxPages, an empty
\* store, a database that keeps its connection.
InitProcess ==
    /\ subreddits = <<"a", "b">>
    /\ pagination_limit \in {None, Some(MaxPages)}
    /\ post_type = "hot"
    /\ \E p \in [{"a", "b"} -> WalkResponses] :
          upstream = [name \in {"a", "b"} |-> <<p[name]>>]
    /\ db_faults = 0
    /\ rollback_faults = 0
    /\ store = Empty
    /\ flushed = Empty
    /\ pending = Empty
    /\ pc = "scheduler"
    /\ k = 0
    /\ posts = <<>>
    /\ seen_urls = {}
    /\ batches = <<>>
    /\ requests = <<>>
    /\ after = None
    /\ current_page = 0
    /\ api_calls = 0
    /\ walk_end = "none"
    /\ i = 0
    /\ j = 0
    /\ skipped = {}
    /\ batch_committed = Empty
    /\ attempt = Empty
    /\ failed_at = 0
    /\ last_error = NoError
    /\ run_no = 0
    /\ first_run = None
    /\ feed_log = <<>>
    /\ pace = "none"
    /\ interrupted = FALSE
    /\ exit_code = None

\* Where the comment forest of a submission of n comments can raise: before
\* any comment is appended, or after fewer than n are.
RaisePoints(n) == {None} \cup {Some(c) : c \in 0..(IF n = 0 THEN 0 ELSE n - 1)}

\* The listing with the comment forests that raise.
WithRaises(listing, raises) ==
    [p \in 1..Len(listing) |->
        IF raises[p] = None THEN listing[p]
        ELSE [id |-> listing[p].id, permalink |-> listing[p].permalink,
              comments |-> listing[p].comments,
              comments_raise_at |-> raises[p][1]]]

\* One subreddit, one page of at most MaxSize submissions and comments,
\* submission p with id p and permalink p, any comment ids, any comment forest
\* raising; pagination_limit absent or MaxPages; an empty store.
InitComments ==
    /\ subreddits = <<"a">>
    /\ pagination_limit \in {None, Some(MaxPages)}
    /\ post_type = "hot"
    /\ \E sh \in SaveShapes[MaxSize] :
          \E ckeys \in [1..SeqSum(sh) -> CommentIds],
             raises \in [1..Len(sh) -> RaisePoints(MaxSize)] :
                /\ \A p \in 1..Len(sh) : raises[p] \in RaisePoints(sh[p])
                /\ upstream = [s \in {"a"} |->
                      <<Ok(WithRaises(MakeListing(sh, [p \in 1..Len(sh) |-> <<p, p>>],
                                                  ckeys),
                                      raises))>>]
    /\ db_faults = 0
    /\ rollback_faults = 0
    /\ store = Empty
    /\ InitControl

Init == InitRun

Spec == Init /\ [][Next]_vars
SpecSave == InitSave /\ [][RunOnce]_vars
SpecWalk == InitWalk /\ [][RunOnce]_vars
SpecPages == InitPages /\ [][RunOnce]_vars
SpecFeeds == InitFeeds /\ [][RunOnce]_vars
SpecProcess == InitProcess /\ [][NextProcess]_vars
SpecComments == InitComments /\ [][RunOnce]_vars

TypeOK ==
    /\ pc \in {"scheduler", "run_loop", "fetch_loop", "save_loop",
              "save_comments", "exited"}
    /\ k \in 0..Len(subreddits)
    /\ i \in 0..(Len(posts) + 1)
    /\ db_faults \in 0..1
    /\ run_no \in 0..MaxRuns
    /\ walk_end \in {"none", "limit", "empty", "error", "extract", "input"}
    /\ pace \in {"none", "called", "slept"}
    /\ Len(feed_log) \in 0..Len(subreddits)
    /\ exit_code \in {None, Some(0), Some(1)}

\* ---------------------------------------------------------------- C1
\* C1 (idempotence): when run has been executed a second time with the same
\* upstream responses and no database fault, the Post rows and the Comment rows
\* are those the first execution left.
C1_Idempotent ==
    (pc = "exited" /\ run_no = 2) => store = first_run[1]

\* ---------------------------------------------------------------- C2
\* C2 (uniqueness): no two committed Post rows share an id, no two share a
\* post_url, and no two committed Comment rows share a comment_id.
C2_Uniqueness ==
    /\ \A p, q \in store.posts : p.id = q.id => p = q
    /\ \A p, q \in store.posts : p.post_url = q.post_url => p = q
    /\ \A c, d \in store.comments : c.comment_id = d.comment_id => c = d

\* A save that committed a post with a comment and then met a record that
\* collides with a stored row.
C2_Witness ==
    /\ pc = "exited"
    /\ batch_committed.posts # {}
    /\ store.comments # {}
    /\ last_error.type = "IntegrityError"

\* ---------------------------------------------------------------- C3
\* C3 (referential integrity): every committed Comment row has the id of a
\* committed Post row as its post_id, and that post was committed in the same
\* transaction or in an earlier one.
C3_ReferentialIntegrity ==
    \A c \in store.comments :
        \E p \in store.posts : p.id = c.post_id /\ p.tx <= c.tx

\* A save that committed a comment with its post and whose next transaction
\* was rolled back.
C3_Witness ==
    /\ pc = "exited"
    /\ batch_committed.comments # {}
    /\ failed_at > 1

\* ---------------------------------------------------------------- C4
\* C4 (one bad record does not abort the batch): when the transaction of the
\* post at position failed_at has raised and save has returned, every later
\* post of the batch that could be saved cleanly (its id is not the id of a
\* stored row) is in the store.
C4_LaterPostsSaved ==
    (pc \in {"run_loop", "exited"} /\ failed_at > 0) =>
        \A n \in (failed_at + 1)..Len(posts) :
            \/ posts[n].post_url \in StoreUrls(store)
            \/ posts[n].id \in StoreIds(store)

\* ---------------------------------------------------------------- C5
\* C5 (per-post atomicity): while the transaction of a post is open, and after
\* it has raised, the store holds neither the post it added nor a comment it
\* added, and every row committed earlier by this call of save is in the store.
C5_PerPostAtomicity ==
    (pc = "save_comments" \/ failed_at > 0) =>
        /\ \A p \in attempt.posts :
              ~(\E r \in store.posts : r.post_url = p.post_url)
        /\ \A c \in attempt.comments :
              ~(\E r \in store.comments : r.comment_id = c.comment_id)
        /\ batch_committed.posts \subseteq store.posts
        /\ batch_committed.comments \subseteq store.comments

\* The transaction of the second post raised after it had added a comment; the
\* first post of the batch had been committed.
C5_Witness ==
    /\ failed_at > 1
    /\ last_error.at \in {"comment", "commit"}
    /\ attempt.comments # {}
    /\ batch_committed.posts # {}

\* ---------------------------------------------------------------- C6
\* C6 (a second observation is a silent skip): no record whose id or whose
\* post_url is already in the store makes save raise a constraint error.
C6_SecondObservationSkipped ==
    (failed_at > 0 /\ last_error.type = "IntegrityError") =>
        /\ posts[failed_at].id \notin StoreIds(store)
        /\ posts[failed_at].post_url \notin StoreUrls(store)

\* ---------------------------------------------------------------- C7
\* C7 as stated (comments of an already-present post are still processed):
\* when save has returned without an exception, every comment attached to a
\* record that was skipped as an already-present post is in the store.
C7_CommentsOfPresentPostSaved ==
    (pc \in {"run_loop", "exited"} /\ failed_at = 0) =>
        \A n \in skipped : \A q \in 1..Len(posts[n].comments) :
            posts[n].comments[q].comment_id \in StoreCommentIds(store)

\* C7 as amended: a record whose post_url is already in the store is skipped
\* together with its comments (the step changes neither the store nor the
\* session and goes to the next record); the comments attached to a newly
\* inserted post are all in the store once its transaction is committed.
C7_CommentsOnlyWithNewPost ==
    [][/\ (/\ pc = "save_loop"
           /\ i <= Len(posts)
           /\ \E r \in store.posts : r.post_url = posts[i].post_url
           /\ failed_at' = 0)
          => (/\ store' = store
              /\ flushed' = flushed
              /\ pending' = pending
              /\ pc' = "save_loop"
              /\ i' = i + 1)
       /\ (pc = "save_comments" /\ pc' = "save_loop")
          => \A q \in 1..Len(posts[i].comments) :
                posts[i].comments[q].comment_id \in StoreCommentIds(store')]_vars

\* A record of a stored post was skipped, and a comment attached to it is not
\* in the store when save has returned.
C7_Witness ==
    /\ pc \in {"run_loop", "exited"}
    /\ failed_at = 0
    /\ \E n \in skipped : \E q \in 1..Len(posts[n].comments) :
          posts[n].comments[q].comment_id \notin StoreCommentIds(store)

\* ---------------------------------------------------------------- C8
\* The first page whose fetch fails, and the first page that is empty.
FirstFail(subreddit_name) ==
    CHOOSE n \in 1..Len(upstream[subreddit_name]) :
        /\ ~api_listing(subreddit_name, n).ok
        /\ \A m \in 1..(n - 1) : api_listing(subreddit_name, m).ok

FirstEmpty(subreddit_name) ==
    CHOOSE n \in 1..(Len(upstream[subreddit_name]) + 1) :
        /\ api_listing(subreddit_name, n) = Ok(<<>>)
        /\ \A m \in 1..(n - 1) : api_listing(subreddit_name, m) # Ok(<<>>)

\* C8 (retry bound): when every call to the upstream fails, the walk has made
\* max_api_retries + 1 calls for the page when it surfaces the failure.
C8_RetryBound ==
    (/\ walk_end = "error"
     /\ \A n \in 1..Len(upstream[subreddits[k]]) : upstream[subreddits[k]][n] = Fail)
    => api_calls = max_api_retries + 1

\* ---------------------------------------------------------------- C9
\* C9 (pagination termination): a walk that ended without a failed fetch has
\* made min(pagination_limit, first empty page) listing calls, and one call
\* when pagination_limit is absent.
C9_FetchCount ==
    walk_end \in {"limit", "empty"} =>
        api_calls = IF pagination_limit = None THEN 1
                    ELSE Min(pagination_limit[1], FirstEmpty(subreddits[k]))

\* The same for the limits other than 0: absent, or 1 and more.
C9_FetchCountFromOne ==
    (walk_end \in {"limit", "empty"} /\ pagination_limit # Some(0)) =>
        api_calls = IF pagination_limit = None THEN 1
                    ELSE Min(pagination_limit[1], FirstEmpty(subreddits[k]))

\* --------------------------------------------------------------- C10
\* The posts fetch_posts has accumulated after the first m pages.
RECURSIVE Accumulated(_, _)
Accumulated(subreddit_name, m) ==
    IF m = 0 THEN [batch |-> <<>>, seen_urls |-> {}]
    ELSE LET before == Accumulated(subreddit_name, m - 1)
             page == page_batch(api_listing(subreddit_name, m).listing,
                                before.seen_urls, <<>>, subreddit_name)
         IN  [batch |-> before.batch \o page.batch, seen_urls |-> page.seen_urls]

\* C10 (a page-fetch failure keeps the partial results): when the fetch of page
\* n has failed, the walk has made n calls and no more, save is given the posts
\* of pages 1..n-1, and once save has returned each of them is in the store.
C10_PartialResults ==
    walk_end = "error" =>
        LET n == FirstFail(subreddits[k]) IN
        /\ api_calls = n
        /\ pc \in {"save_loop", "save_comments", "run_loop", "exited"}
        /\ posts = Accumulated(subreddits[k], n - 1).batch
        /\ (pc \in {"run_loop", "exited"} /\ failed_at = 0) =>
              \A m \in 1..Len(posts) : posts[m].post_url \in StoreUrls(store)

\* The walk of "a" failed on its second page; the post of its first page is
\* committed, and the run has gone on to "b" and committed its post.
C10_Witness ==
    /\ k = 2
    /\ pc = "exited"
    /\ page_bound(pagination_limit) >= 2
    /\ api_listing("a", 1).listing # <<>>
    /\ ~api_listing("a", 2).ok
    /\ \E r \in store.posts : r.subreddit = "a"
    /\ \E r \in store.posts : r.subreddit = "b"

\* --------------------------------------------------------------- C11
\* The listing of the n-th page of the current walk.
PageListing(n) == api_listing(subreddits[k], n).listing

\* C11 (extraction errors are per-item): when a walk has ended, it has not
\* ended on an extraction error, and every submission of the pages it has
\* fetched that extracts cleanly has a record in the walk's result.
C11_ExtractionPerItem ==
    (k > 0 /\ walk_end # "none") =>
        /\ walk_end # "extract"
        /\ \A n \in 1..api_calls : \A q \in 1..Len(PageListing(n)) :
              ~extract_raises(PageListing(n)[q]) =>
                  \E m \in 1..Len(posts) :
                      posts[m].post_url =
                          extract_post_data(PageListing(n)[q], subreddits[k]).post_url

\* --------------------------------------------------------------- C12
\* C12 (input errors fail fast): with post_type "relevance" and no search
\* query, or with an unknown post_type, no listing call is made, fetch_posts
\* does not return a result to run, and save_posts_with_duplicates is not
\* called.
C12_InputErrorFailsFast ==
    listing_raises(post_type, search_query) =>
        /\ api_calls = 0
        /\ pc \notin {"save_loop", "save_comments"}
        /\ \A n \in 1..Len(feed_log) : feed_log[n].outcome # "saved"

\* The part of C12 about the upstream: no listing call is made.
C12_NoListingCall ==
    listing_raises(post_type, search_query) => (api_calls = 0 /\ pace # "called")

\* --------------------------------------------------------------- C13
\* C13 (feed-level failure isolation): run starts the subreddits in input
\* order, each once; the rows the save of a subreddit has committed stay in the
\* store whatever happens to the subreddits after it; and when run has exited,
\* every subreddit has been fetched and its try has ended, also those after a
\* subreddit whose processing raised.
C13_FeedIsolation ==
    /\ \A n \in 1..Len(feed_log) : feed_log[n].subreddit = subreddits[n]
    /\ \A n \in 1..Len(feed_log) :
          /\ feed_log[n].committed.posts \subseteq store.posts
          /\ feed_log[n].committed.comments \subseteq store.comments
    /\ pc = "exited" =>
          /\ Len(feed_log) = Len(subreddits)
          /\ \A n \in 1..Len(feed_log) : feed_log[n].outcome \in {"saved", "raised"}
          /\ \A n \in 1..Len(feed_log) : \A m \in (n + 1)..Len(feed_log) :
                feed_log[n].outcome = "raised" => feed_log[m].outcome = "saved"

\* The processing of "b" raised; the post of "a" is in the store, and "c" was
\* fetched and its post saved after that.
C13_Witness ==
    /\ pc = "exited"
    /\ Len(feed_log) = 3
    /\ feed_log[1].committed.posts # {}
    /\ feed_log[2].outcome = "raised"
    /\ feed_log[3].outcome = "saved"
    /\ feed_log[3].committed.posts # {}

\* --------------------------------------------------------------- C14
SetMin(S) == CHOOSE m \in S : \A n \in S : m <= n

UrlOf(post) == extract_post_data(post, subreddits[k]).post_url

\* The record fetch_posts makes of a submission.
RecordOf(post) ==
    with_comments(extract_post_data(post, subreddits[k]), fetch_comments(post))

\* Where a url occurs in the listing of page n, and the urls of the page.
Occurrences(n, url) ==
    {q \in 1..Len(PageListing(n)) :
        /\ ~extract_raises(PageListing(n)[q])
        /\ UrlOf(PageListing(n)[q]) = url}

PageUrls(n) ==
    {UrlOf(PageListing(n)[q]) :
        q \in {r \in 1..Len(PageListing(n)) : ~extract_raises(PageListing(n)[r])}}

\* The url occurs on a page of the walk before page n.
SeenBefore(n, url) == \E m \in 1..(n - 1) : Occurrences(m, url) # {}

\* Where the batch of page n has a record of the url.
Records(n, url) == {m \in 1..Len(batches[n]) : batches[n][m].post_url = url}

\* C14 as stated (same-page deduplication): when a page holds two or more
\* submissions of one url, the batch of that page has exactly one record of
\* the url, the record of the first of them.
C14_SamePageDedup ==
    \A n \in 1..Len(batches) : \A url \in PageUrls(n) :
        Cardinality(Occurrences(n, url)) >= 2 =>
            /\ Cardinality(Records(n, url)) = 1
            /\ \A m \in Records(n, url) :
                  batches[n][m] = RecordOf(PageListing(n)[SetMin(Occurrences(n, url))])

\* C14 as amended: when a page holds two or more submissions of one url, the
\* batch of that page has exactly one record of the url, the record of the
\* first of them, if the url has not occurred on an earlier page of the same
\* walk, and no record of the url if it has.
C14_SamePageDedupOfUnseen ==
    \A n \in 1..Len(batches) : \A url \in PageUrls(n) :
        Cardinality(Occurrences(n, url)) >= 2 =>
            IF SeenBefore(n, url) THEN Records(n, url) = {}
            ELSE /\ Cardinality(Records(n, url)) = 1
                 /\ \A m \in Records(n, url) :
                       batches[n][m] =
                           RecordOf(PageListing(n)[SetMin(Occurrences(n, url))])

\* A walk has made the batch of a page that holds two submissions of one url
\* with different ids, the url not seen before.
C14_Witness ==
    \E n \in 1..Len(batches) : \E url \in PageUrls(n) :
        /\ ~SeenBefore(n, url)
        /\ \E q, r \in Occurrences(n, url) :
              q < r /\ PageListing(n)[q].id # PageListing(n)[r].id

\* --------------------------------------------------------------- C15
\* Where the result of the walk has a record of the url.
WalkRecords(url) == {m \in 1..Len(posts) : posts[m].post_url = url}

\* C15 as stated (no deduplication across pages): when a url occurs on two
\* pages of one walk, the batch of each of the two pages has a record of it.
C15_NoCrossPageDedup ==
    \A n \in 1..Len(batches) : \A m \in 1..(n - 1) :
        \A url \in PageUrls(n) \cap PageUrls(m) :
            Records(m, url) # {} /\ Records(n, url) # {}

\* C15 as amended: the set of seen urls is that of the walk.  When a url
\* occurs on two pages of one walk, the batch of the later page has no record
\* of it, and the result of the walk, which is the batches of its pages in
\* order, has exactly one record of the url: that of its first occurrence on
\* the first page that holds it.
C15_WalkDedup ==
    /\ k > 0 => posts = Accumulated(subreddits[k], Len(batches)).batch
    /\ \A n \in 1..Len(batches) : \A m \in 1..(n - 1) :
          \A url \in PageUrls(n) \cap PageUrls(m) :
              /\ Records(n, url) = {}
              /\ Cardinality(WalkRecords(url)) = 1
              /\ ~SeenBefore(m, url) =>
                    \A p \in WalkRecords(url) :
                        posts[p] = RecordOf(PageListing(m)[SetMin(Occurrences(m, url))])

\* A walk of two pages has ended; the submission of its second page has the
\* url of a submission of its first page, and another id.
C15_Witness ==
    /\ walk_end # "none"
    /\ Len(batches) = 2
    /\ \E url \in PageUrls(1) \cap PageUrls(2) :
          \E q \in Occurrences(1, url), r \in Occurrences(2, url) :
              PageListing(1)[q].id # PageListing(2)[r].id

\* --------------------------------------------------------------- C16
\* The comment ids of the records handed to save_posts_with_duplicates.
HandedCommentIds(post_data) ==
    {post_data.comments[q].comment_id : q \in 1..Len(post_data.comments)}

\* C16 (in-run deduplication filter): an identity that has been accepted in a
\* run is not handed to save_posts_with_duplicates again in that run: the
\* records handed over for one subreddit, from all its pages, have different
\* post_urls, and none has a post_url or a comment id that the save of an
\* earlier subreddit of the run has accepted and committed.
C16_InRunFilter ==
    pc \in {"save_loop", "save_comments"} =>
        /\ \A m, n \in 1..Len(posts) : m # n => posts[m].post_url # posts[n].post_url
        /\ \A n \in 1..(k - 1) : \A m \in 1..Len(posts) :
              /\ posts[m].post_url \notin StoreUrls(feed_log[n].committed)
              /\ HandedCommentIds(posts[m])
                     \cap StoreCommentIds(feed_log[n].committed) = {}

\* The part of C16 that holds: the records of one walk have different
\* post_urls.
C16_WalkFilter ==
    \A m, n \in 1..Len(posts) : m # n => posts[m].post_url # posts[n].post_url

\* --------------------------------------------------------------- C17
\* The batch records whose post_url the store did not hold when save started.
NewRecords(before) ==
    {m \in 1..Len(posts) : posts[m].post_url \notin StoreUrls(before)}

\* C17 (insert exactly the new posts): when save_posts_with_duplicates has
\* returned and no transaction has failed, the Post rows added are one row for
\* each batch record whose post_url was not in the store and no other row, the
\* rows that were in the store are all there, unchanged, and the call has
\* returned without an error.
C17_InsertExactlyNew ==
    (pc \in {"run_loop", "exited"} /\ k > 0 /\ failed_at = 0) =>
        LET before == feed_log[k].store_before
            added == store.posts \ before.posts
        IN  /\ \A m \in NewRecords(before) :
                  Cardinality({r \in added : /\ r.id = posts[m].id
                                              /\ r.post_url = posts[m].post_url
                                              /\ r.subreddit = posts[m].subreddit}) = 1
            /\ Cardinality(added) = Cardinality(NewRecords(before))
            /\ before.posts \subseteq store.posts
            /\ before.comments \subseteq store.comments
            /\ feed_log[k].outcome = "saved"
            /\ last_error = NoError

\* save was given two records, one of a stored post, and has added one row.
C17_Witness ==
    /\ pc \in {"run_loop", "exited"}
    /\ failed_at = 0
    /\ Len(posts) = 2
    /\ Cardinality(skipped) = 1
    /\ Cardinality(store.posts \ feed_log[k].store_before.posts) = 1
    /\ feed_log[k].store_before.posts # {}

\* --------------------------------------------------------------- C18
\* The open transaction would commit if it were left to finish: its post
\* violates no constraint and the database keeps its connection.
WouldCommit ==
    /\ db_faults = 0
    /\ \A p \in attempt.posts : ~pk_conflict(p, store) /\ ~url_conflict(p, store)

\* C18 (interrupt handling): after an interrupt the process has exited with
\* code 0, and the post of the transaction that was open when the interrupt
\* came, if the transaction had not failed and would commit, is in the store.
C18_InterruptFinishesTransaction ==
    interrupted =>
        /\ pc = "exited"
        /\ exit_code = Some(0)
        /\ (failed_at = 0 /\ WouldCommit) =>
              \A p \in attempt.posts : p.post_url \in StoreUrls(store)

\* The parts of C18 that hold: after an interrupt the process has exited with
\* code 0, so that no page is fetched and no subreddit started after it.
C18_InterruptExits ==
    interrupted => (pc = "exited" /\ exit_code = Some(0))

\* --------------------------------------------------------------- C19
\* C19 (pacing between upstream calls): a listing call is never made right
\* after another listing call of the same run: time.sleep(api_rate_limit_delay)
\* has been called in between.
C19_PacedCalls ==
    [][(api_calls' = api_calls + 1) => pace # "called"]_vars

\* --------------------------------------------------------------- C20
\* C20 (periodic scheduling): the process goes on after a run of the job; it
\* exits only on an interrupt (code 0) or on an error of the scheduler loop
\* (code 1).
C20_SchedulerKeepsRunning ==
    exit_code # None => (interrupted \/ exit_code = Some(1))

\* --------------------------------------------------------------- C21
\* The last submission of the listing of page n.
LastOfPage(n) == PageListing(n)[Len(PageListing(n))]

\* C21 (rolling cursor): every listing call of a walk has sent its params; the
\* first call has sent no cursor, and the call for page n + 1 has sent as
\* `after` the fullname of the last submission of the listing of page n,
\* whether or not that submission is in the batch of the page.
C21_RollingCursor ==
    /\ Len(requests) = api_calls
    /\ Len(requests) >= 1 => requests[1] = None
    /\ \A n \in 1..(Len(requests) - 1) :
          requests[n + 1] = [after |-> fullname(LastOfPage(n))]

\* A walk has made three listing calls; the last submission of its first page
\* was dropped as a duplicate of a submission with another id.
C21_Witness ==
    /\ Len(requests) = 3
    /\ ~extract_raises(LastOfPage(1))
    /\ \E q \in Occurrences(1, UrlOf(LastOfPage(1))) :
          /\ q < Len(PageListing(1))
          /\ PageListing(1)[q].id # LastOfPage(1).id

\* --------------------------------------------------------------- C22
\* The comments appended to comments_data before the comment forest of the
\* submission raised.
CollectedBefore(post) ==
    [c \in 1..post.comments_raise_at |->
        [comment_id |-> post.comments[c], post_id |-> post.id]]

\* C22 (a comment-fetch failure never loses the post): when the comment forest
\* of a submission raises, the batch of the page has the record of the
\* submission with the comments collected before the failure, the submissions
\* after it on the page have their records too, and the walk does not end on
\* an error.
C22_CommentFailureKeepsPost ==
    /\ walk_end \in {"none", "limit", "empty"}
    /\ current_page = Len(batches)
    /\ \A n \in 1..Len(batches) : \A q \in 1..Len(PageListing(n)) :
          comments_raise(PageListing(n)[q]) =>
              /\ \E m \in 1..Len(batches[n]) :
                    /\ batches[n][m].id = PageListing(n)[q].id
                    /\ batches[n][m].post_url = UrlOf(PageListing(n)[q])
                    /\ batches[n][m].comments = CollectedBefore(PageListing(n)[q])
              /\ \A r \in (q + 1)..Len(PageListing(n)) :
                    \E m \in 1..Len(batches[n]) :
                        batches[n][m].post_url = UrlOf(PageListing(n)[r])

\* The comment forest of the first submission of a page raised after one
\* comment; the post, that comment and the post after it are in the store.
C22_Witness ==
    /\ pc = "exited"
    /\ Len(batches) = 1
    /\ Len(PageListing(1)) = 2
    /\ comments_raise(PageListing(1)[1])
    /\ PageListing(1)[1].comments_raise_at = 1
    /\ Cardinality(store.posts) = 2
    /\ Cardinality(store.comments) = 1

====
